---- MODULE Spec2Model ----
(***************************************************************************)
(* A model of ttyrec-transcode.py: the ttyrec reader TtyPlay, the writer   *)
(* TtyRecWriter and the transcoding loop of __main__.                      *)
(*                                                                         *)
(* Bytes are naturals in 0..255 and a stream is a sequence of bytes.       *)
(* Python floats are IEEE-754 binary64 values; they are modelled exactly   *)
(* as a sign and a fixed-point magnitude (a sequence of base-256 limbs),   *)
(* every operation rounding to 53 significant bits, nearest-even.          *)
(***************************************************************************)
EXTENDS Integers, Sequences, FiniteSets, TLC

(***************************************************************************)
(* Bounds of the model.                                                    *)
(***************************************************************************)
MaxFrames == 3
MaxCalls == 4

(***************************************************************************)
(* Program constants.                                                      *)
(***************************************************************************)
HeaderLen == 12
Million == 1000000
MantBits == 53

(***************************************************************************)
(* IEEE-754 binary64 arithmetic.                                           *)
(* A magnitude is a sequence of NLimbs base-256 limbs, most significant    *)
(* first: 5 limbs of integer part and 10 limbs (80 bits) of fraction.      *)
(* Bit b (0 = least significant) has weight 2^(b-80).  Every value the     *)
(* delay computation produces is below 2^33 and a multiple of 2^-72, so    *)
(* the fixed-point format holds each of them exactly.                      *)
(***************************************************************************)
NLimbs == 5 + 10
UnitLimb == NLimbs - 10
ZeroMag == [i \in 1..NLimbs |-> 0]

BitOf(m, b) == (m[NLimbs - (b \div 8)] \div (2 ^ (b % 8))) % 2

TopBit(m) ==
  LET i == CHOOSE i \in 1..NLimbs : m[i] # 0 /\ \A j \in 1..(i - 1) : m[j] = 0
      k == CHOOSE k \in 0..7 : m[i] \div (2 ^ k) = 1
  IN  8 * (NLimbs - i) + k

\* the magnitude of a natural number below 2^32
NatMag(n) ==
  [i \in 1..NLimbs |->
     IF i = 1 \/ i > UnitLimb THEN 0 ELSE (n \div (256 ^ (UnitLimb - i))) % 256]

\* the magnitude 2^(b-80)
PowMag(b) ==
  [i \in 1..NLimbs |-> IF i = NLimbs - (b \div 8) THEN 2 ^ (b % 8) ELSE 0]

RECURSIVE AddFrom(_, _, _, _)
AddFrom(a, b, i, carry) ==
  IF i = 0 THEN <<>>
  ELSE LET s == a[i] + b[i] + carry
       IN  Append(AddFrom(a, b, i - 1, s \div 256), s % 256)

AddMag(a, b) == AddFrom(a, b, NLimbs, 0)

RECURSIVE SubFrom(_, _, _, _)
SubFrom(a, b, i, borrow) ==
  IF i = 0 THEN <<>>
  ELSE LET d == a[i] - b[i] - borrow
       IN  Append(SubFrom(a, b, i - 1, IF d < 0 THEN 1 ELSE 0), d % 256)

\* a - b for a >= b
SubMag(a, b) == SubFrom(a, b, NLimbs, 0)

GeMag(a, b) ==
  \/ a = b
  \/ LET i == CHOOSE i \in 1..NLimbs : a[i] # b[i] /\ \A j \in 1..(i - 1) : a[j] = b[j]
     IN  a[i] > b[i]

\* m with the bits below bit l cleared
Truncate(m, l) ==
  [i \in 1..NLimbs |->
     LET lo == 8 * (NLimbs - i)
     IN  IF lo >= l THEN m[i]
         ELSE IF lo + 8 <= l THEN 0
         ELSE m[i] - (m[i] % (2 ^ (l - lo)))]

\* m rounded at bit l: the bits below bit l dropped, to nearest, ties to even.
\* sticky: the exact value exceeds m by a non-zero amount below bit 0.
RoundAt(m, l, sticky) ==
  IF l <= 0 THEN m
  ELSE IF /\ BitOf(m, l - 1) = 1
          /\ (sticky \/ BitOf(m, l) = 1 \/ \E b \in 0..(l - 2) : BitOf(m, b) = 1)
    THEN AddMag(Truncate(m, l), PowMag(l))
  ELSE Truncate(m, l)

\* Round a magnitude to MantBits significant bits.
\* (v \in {e} names the value of e, so that it is computed once.)
RoundMag(m0, sticky) ==
  CHOOSE r \in UNION
    { { RoundAt(m, l, sticky) :
          l \in {IF m = ZeroMag THEN 0 ELSE TopBit(m) - (MantBits - 1)} } :
        m \in {m0} } : TRUE

\* Long division of the limbs i.. of n by d (0 < d <= Million), rem carried in:
\* the quotient limbs followed by the final remainder.
RECURSIVE DivFrom(_, _, _, _)
DivFrom(n, d, i, rem) ==
  IF i > NLimbs THEN <<rem>>
  ELSE <<(rem * 256 + n[i]) \div d>> \o DivFrom(n, d, i + 1, (rem * 256 + n[i]) % d)

\* A float: a sign and a magnitude.  Zero is never negative here.
FZero == [neg |-> FALSE, mag |-> ZeroMag]

\* float(n) for an integer n, |n| < 2^32
FInt(n) == [neg |-> n < 0, mag |-> NatMag(IF n < 0 THEN 0 - n ELSE n)]

\* float(u) / float(d) for naturals u < 2^32 and 0 < d <= Million
FDivNat(u, d) ==
  CHOOSE x \in { [neg |-> FALSE,
                  mag |-> RoundMag(SubSeq(res, 1, NLimbs), res[NLimbs + 1] # 0)] :
                 res \in {DivFrom(NatMag(u), d, 1, 0)} } : TRUE

FNeg(x) == IF x.mag = ZeroMag THEN x ELSE [neg |-> ~x.neg, mag |-> x.mag]

FAdd(x, y) ==
  IF x.neg = y.neg
    THEN [neg |-> x.neg, mag |-> RoundMag(AddMag(x.mag, y.mag), FALSE)]
  ELSE IF x.mag = y.mag THEN FZero
  ELSE IF GeMag(x.mag, y.mag)
    THEN [neg |-> x.neg, mag |-> RoundMag(SubMag(x.mag, y.mag), FALSE)]
  ELSE [neg |-> y.neg, mag |-> RoundMag(SubMag(y.mag, x.mag), FALSE)]

FSub(x, y) == FAdd(x, FNeg(y))

\* x < 0
FNegative(x) == x.neg /\ x.mag # ZeroMag

(***************************************************************************)
(* Bytes, struct.pack('<III', ...) and struct.unpack('<III', ...).         *)
(* The model's values stay below 2^31.                                     *)
(***************************************************************************)
Min(a, b) == IF a < b THEN a ELSE b

U32LE(v) == <<v % 256, (v \div 256) % 256, (v \div 65536) % 256, (v \div 16777216) % 256>>

FromLE(b) == b[1] + 256 * b[2] + 65536 * b[3] + 16777216 * b[4]

Pack(seconds, useconds, length) == U32LE(seconds) \o U32LE(useconds) \o U32LE(length)

Unpack(header) ==
  [seconds  |-> FromLE(SubSeq(header, 1, 4)),
   useconds |-> FromLE(SubSeq(header, 5, 8)),
   length   |-> FromLE(SubSeq(header, 9, 12))]

(***************************************************************************)
(* A binary file object: its bytes, its position and the number of close() *)
(* calls made on it (it is closed once that number is positive).           *)
(***************************************************************************)
OpenFile(data) == [data |-> data, pos |-> 0, closes |-> 0]

\* the bytes file.read(n) returns
FileRead(f, n) == SubSeq(f.data, f.pos + 1, Min(f.pos + n, Len(f.data)))

FileSkip(f, n) == [f EXCEPT !.pos = Min(f.pos + n, Len(f.data))]

FileSeek(f, p) == [f EXCEPT !.pos = p]

FileWrite(f, bytes) == [f EXCEPT !.data = @ \o bytes, !.pos = @ + Len(bytes)]

FileClose(f) == [f EXCEPT !.closes = @ + 1]

FileClosed(f) == f.closes > 0

(***************************************************************************)
(* bytes.decode(encoding) and str.encode(encoding) with the default        *)
(* errors='strict'.  A text is a sequence of code points.                  *)
(***************************************************************************)
Encodings == {"ascii", "latin-1", "utf-8"}

IsCont(b) == b >= 128 /\ b <= 191

\* number of bytes of the UTF-8 sequence starting at b[i], 0 when it is invalid
Utf8SeqLen(b, i) ==
  LET n  == Len(b) - i + 1
      b0 == b[i]
  IN  IF b0 < 128 THEN 1
      ELSE IF b0 >= 194 /\ b0 <= 223
        THEN IF n >= 2 /\ IsCont(b[i + 1]) THEN 2 ELSE 0
      ELSE IF b0 >= 224 /\ b0 <= 239
        THEN IF /\ n >= 3
                /\ IsCont(b[i + 1])
                /\ IsCont(b[i + 2])
                /\ (b0 = 224 => b[i + 1] >= 160)
                /\ (b0 = 237 => b[i + 1] <= 159)
             THEN 3 ELSE 0
      ELSE IF b0 >= 240 /\ b0 <= 244
        THEN IF /\ n >= 4
                /\ IsCont(b[i + 1])
                /\ IsCont(b[i + 2])
                /\ IsCont(b[i + 3])
                /\ (b0 = 240 => b[i + 1] >= 144)
                /\ (b0 = 244 => b[i + 1] <= 143)
             THEN 4 ELSE 0
      ELSE 0

Utf8CodePoint(b, i, n) ==
  IF n = 1 THEN b[i]
  ELSE IF n = 2 THEN (b[i] - 192) * 64 + (b[i + 1] - 128)
  ELSE IF n = 3 THEN (b[i] - 224) * 4096 + (b[i + 1] - 128) * 64 + (b[i + 2] - 128)
  ELSE (b[i] - 240) * 262144 + (b[i + 1] - 128) * 4096
         + (b[i + 2] - 128) * 64 + (b[i + 3] - 128)

\* the text of b[i..], or <<-1>> appended where decoding fails
RECURSIVE Utf8DecodeFrom(_, _)
Utf8DecodeFrom(b, i) ==
  IF i > Len(b) THEN <<>>
  ELSE IF Utf8SeqLen(b, i) = 0 THEN <<-1>>
  ELSE <<Utf8CodePoint(b, i, Utf8SeqLen(b, i))>> \o Utf8DecodeFrom(b, i + Utf8SeqLen(b, i))

\* an encoder that writes every character below 256 as one byte
Utf8EncodeCharNarrow(c) == IF c < 256 THEN <<c>> ELSE <<239, 191, 189>>

Utf8EncodeChar(c) ==
  IF c < 128 THEN <<c>>
  ELSE IF c < 2048 THEN <<192 + (c \div 64), 128 + (c % 64)>>
  ELSE IF c < 65536
    THEN <<224 + (c \div 4096), 128 + ((c \div 64) % 64), 128 + (c % 64)>>
  ELSE <<240 + (c \div 262144), 128 + ((c \div 4096) % 64),
         128 + ((c \div 64) % 64), 128 + (c % 64)>>

RECURSIVE Utf8EncodeFrom(_, _)
Utf8EncodeFrom(t, i) ==
  IF i > Len(t) THEN <<>> ELSE Utf8EncodeChar(t[i]) \o Utf8EncodeFrom(t, i + 1)

IsSurrogate(c) == c >= 55296 /\ c <= 57343

\* bytes.decode(enc): [ok, text]; ~ok is UnicodeDecodeError
Decode(enc, bytes) ==
  IF enc = "ascii"
    THEN [ok |-> \A i \in 1..Len(bytes) : bytes[i] < 128, text |-> bytes]
  ELSE IF enc = "latin-1"
    THEN [ok |-> TRUE, text |-> bytes]
  ELSE CHOOSE d \in { [ok |-> \A i \in 1..Len(t) : t[i] >= 0, text |-> t] :
                         t \in {Utf8DecodeFrom(bytes, 1)} } : TRUE

\* str.encode(enc): [ok, bytes]; ~ok is UnicodeEncodeError
Encode(enc, text) ==
  IF enc = "ascii"
    THEN [ok |-> \A i \in 1..Len(text) : text[i] < 128, bytes |-> text]
  ELSE IF enc = "latin-1"
    THEN [ok |-> \A i \in 1..Len(text) : text[i] < 256, bytes |-> text]
  ELSE [ok |-> \A i \in 1..Len(text) : ~IsSurrogate(text[i]),
        bytes |-> Utf8EncodeFrom(text, 1)]

(***************************************************************************)
(* class TtyPlay                                                           *)
(***************************************************************************)
NoFrame == <<-1>>   \* self.frame = None

\* TtyPlay.__init__(f) with the default speed 1.0
TtyPlayInit(f) ==
  [file     |-> f,
   seconds  |-> 0,
   useconds |-> 0,
   length   |-> 0,
   frameno  |-> 0,
   duration |-> FZero,
   frame    |-> <<>>]

\* line 78: duration < 0
InPast(duration) == FNegative(duration)

\* TtyPlay.compute_framelen: the duration, and whether ValueError("ttyrec frame
\* is in past") is raised.  self.speed is 1.0 and dividing by it is exact.
ComputeFramelen(self, sec, usec) ==
  CHOOSE res \in
    { [raised |-> InPast(duration), duration |-> duration] :
        duration \in
          { FAdd(secdiff, usecdiff) :
              secdiff \in {FInt(sec - self.seconds)},
              usecdiff \in
                { FSub(a, b) : a \in {FDivNat(usec, Million)},
                               b \in {FDivNat(self.useconds, Million)} } } } : TRUE

\* line 110: len(header) < 12
ShortHeader(header) == Len(header) < HeaderLen

\* a reader that takes a cut-off payload for a whole one
ShortPayloadUnchecked(frame, length) == FALSE

\* line 115: len(self.frame) < length
ShortPayload(frame, length) == Len(frame) < length

\* line 118: self.frameno > 1
DelayDue(frameno) == frameno > 1

\* a rewind that forgets to restart the frame count
LoopRewindKeepsFrameno(self) == [self EXCEPT !.file = FileSeek(@, 0)]

\* lines 105-106: at EOF with loop, rewind and restart the frame count
LoopRewind(self) == [self EXCEPT !.file = FileSeek(@, 0), !.frameno = 0]

\* line 108: at EOF without loop, close the file
EofClose(self) == [self EXCEPT !.file = FileClose(@)]

\* read_frame once the 12 header bytes are read: lines 113-123
ReadPayload(self, h) ==
  CHOOSE out \in
    { IF ShortPayload(frame, h.length)
        THEN [self |-> [self EXCEPT !.file = FileSkip(@, HeaderLen + h.length),
                                    !.frame = frame],
              ret  |-> "ShortRead"]
      ELSE IF DelayDue(self.frameno + 1) /\ d.raised
        THEN [self |-> [self EXCEPT !.file = FileSkip(@, HeaderLen + h.length),
                                    !.frame = frame,
                                    !.frameno = @ + 1],
              ret  |-> "NegativeDelay"]
      ELSE [self |-> [self EXCEPT !.file = FileSkip(@, HeaderLen + h.length),
                                  !.frame = frame,
                                  !.frameno = @ + 1,
                                  !.duration = IF DelayDue(self.frameno + 1)
                                                 THEN d.duration ELSE @,
                                  !.seconds = h.seconds,
                                  !.useconds = h.useconds,
                                  !.length = h.length],
            ret  |-> "True"] :
      frame \in {FileRead(FileSkip(self.file, HeaderLen), h.length)},
      d \in {IF DelayDue(self.frameno + 1)
               THEN ComputeFramelen(self, h.seconds, h.useconds)
             ELSE [raised |-> FALSE, duration |-> FZero]} } : TRUE

\* TtyPlay.read_frame(loop): the reader after the call and how the call ended:
\* "True", "False", or the ValueError raised ("ShortRead", "NegativeDelay";
\* "ClosedFile" is the read of a closed file).
ReadFrame(self, loop) ==
  IF FileClosed(self.file) THEN [self |-> self, ret |-> "ClosedFile"]
  ELSE IF Len(FileRead(self.file, HeaderLen)) = 0
    THEN [self |-> IF loop THEN LoopRewind(self) ELSE EofClose(self), ret |-> "False"]
  ELSE IF ShortHeader(FileRead(self.file, HeaderLen))
    THEN [self |-> [self EXCEPT !.file = FileSkip(@, HeaderLen)], ret |-> "ShortRead"]
  ELSE CHOOSE out \in
         { ReadPayload(self, h) : h \in {Unpack(FileRead(self.file, HeaderLen))} } : TRUE

\* The while loop of compute_framedelays: read_frame(loop=True) until it returns
\* False or raises.  reads counts the read_frame calls made.
RECURSIVE DelayLoop(_, _, _)
DelayLoop(self, delays, reads) ==
  CHOOSE out \in
    { IF r.ret = "True"
        THEN DelayLoop(r.self,
                       IF r.self.frameno > 1 THEN Append(delays, r.self.duration)
                                             ELSE delays,
                       reads + 1)
      ELSE [self   |-> r.self,
            ret    |-> IF r.ret = "False" THEN "Return" ELSE r.ret,
            delays |-> IF r.ret = "False" THEN delays ELSE <<>>,
            reads  |-> reads + 1] :
      r \in {ReadFrame(self, TRUE)} } : TRUE

\* TtyPlay.compute_framedelays: seek(0) raises ValueError on a closed file.
ComputeFramedelays(self) ==
  IF FileClosed(self.file)
    THEN [self |-> self, ret |-> "ClosedFile", delays |-> <<>>, reads |-> 0]
  ELSE DelayLoop([self EXCEPT !.file = FileSeek(@, 0)], <<>>, 0)

\* TtyPlay.close
TtyPlayClose(self) == [self EXCEPT !.frame = NoFrame, !.file = FileClose(@)]

(***************************************************************************)
(* class TtyRecWriter                                                      *)
(***************************************************************************)
TtyRecWriterInit(f) == [file |-> f]

WriteFrame(self, seconds, useconds, payload) ==
  LET header == Pack(seconds, useconds, Len(payload))
  IN  [self EXCEPT !.file = FileWrite(FileWrite(@, header), payload)]

TtyRecWriterClose(self) == [self EXCEPT !.file = FileClose(@)]

\* a call that passes the two timestamp fields in the wrong order
WrittenFrameSwapped(r, payload) ==
  [seconds |-> r.useconds, useconds |-> r.seconds, payload |-> payload]

\* line 235: the arguments of writer.write_frame
WrittenFrame(r, payload) ==
  [seconds |-> r.seconds, useconds |-> r.useconds, payload |-> payload]

\* reader.frame.decode(source_encoding).encode(target_encoding)
Transcode(a, payload) ==
  CHOOSE out \in
    UNION { { IF ~dec.ok THEN [raised |-> "UnicodeDecodeError", payload |-> <<>>]
              ELSE IF ~enc.ok THEN [raised |-> "UnicodeEncodeError", payload |-> <<>>]
              ELSE [raised |-> "none", payload |-> enc.bytes] :
                enc \in {IF dec.ok THEN Encode(a.target_encoding, dec.text)
                                   ELSE [ok |-> FALSE, bytes |-> <<>>]} } :
            dec \in {Decode(a.source_encoding, payload)} } : TRUE

(***************************************************************************)
(* The inputs of the model: recordings of up to MaxFrames frames, written  *)
(* by write_frame, followed by a (possibly empty) cut-off further frame.   *)
(***************************************************************************)
FrameChoices ==
  { [seconds |-> 0, useconds |-> 0,       payload |-> <<65>>],
    [seconds |-> 1, useconds |-> 1,       payload |-> <<195, 169>>],
    [seconds |-> 0, useconds |-> 1000001, payload |-> <<233>>],
    [seconds |-> 1, useconds |-> 500000,  payload |-> <<>>],
    [seconds |-> 3, useconds |-> 0,       payload |-> <<65, 195, 169>>] }

\* the frames given to a client of the reader alone (their timestamps cover the
\* increasing, decreasing and equal cases; the payload's text does not matter)
PlayFrames == { f \in FrameChoices : f.seconds < 3 }

FrameSeqs(choices) == UNION { [1..n -> choices] : n \in 0..MaxFrames }

RECURSIVE WriteAll(_, _, _)
WriteAll(w, fs, i) ==
  IF i > Len(fs) THEN w
  ELSE WriteAll(WriteFrame(w, fs[i].seconds, fs[i].useconds, fs[i].payload), fs, i + 1)

\* the bytes of a recording of the frames fs
Recording(fs) == WriteAll(TtyRecWriterInit(OpenFile(<<>>)), fs, 1).file.data

\* a frame of two payload bytes, cut off after t bytes
CutFrame(t) == SubSeq(Pack(1, 1, 2) \o <<195, 169>>, 1, t)

TailLens == {0, 1, 5, 11, 12, 13}

EncPairs ==
  { [source_encoding |-> "utf-8",   target_encoding |-> "latin-1"],
    [source_encoding |-> "latin-1", target_encoding |-> "utf-8"],
    [source_encoding |-> "utf-8",   target_encoding |-> "ascii"],
    [source_encoding |-> "utf-8",   target_encoding |-> "utf-8"] }

(***************************************************************************)
(* State.                                                                  *)
(*   args, reader, writer, frames: the objects of __main__                 *)
(*   pc, exc: where __main__ is, and the exception that ended it           *)
(*   input: the frames and the cut-off tail the input file was made of     *)
(*   calls, last, hist: the number of TtyPlay calls made, the last one     *)
(*     (the reader before and after, and how it ended), and the results of *)
(*     the non-loop read_frame calls of the current pass                   *)
(***************************************************************************)
VARIABLES args, reader, writer, frames, pc, exc, input, calls, last, hist

vars == <<args, reader, writer, frames, pc, exc, input, calls, last, hist>>

\* what one read_frame call showed its caller
Shown(r) ==
  [ret      |-> r.ret,
   seconds  |-> IF r.ret = "True" THEN r.self.seconds ELSE 0,
   useconds |-> IF r.ret = "True" THEN r.self.useconds ELSE 0,
   frame    |-> IF r.ret = "True" THEN r.self.frame ELSE <<>>,
   delay    |-> IF r.ret = "True" /\ r.self.frameno > 1 THEN <<r.self.duration>> ELSE <<>>]

\* hist.mode: "fresh" while only non-loop read_frame calls were made on the new
\* reader, "rewound" while only such calls were made since compute_framedelays
\* returned, "mixed" otherwise
HistRead(h, loop, r) ==
  IF loop \/ h.mode = "mixed" THEN [mode |-> "mixed", log |-> <<>>]
  ELSE [h EXCEPT !.log = Append(@, Shown(r))]

HistCompute(r) ==
  [mode |-> IF r.ret = "Return" THEN "rewound" ELSE "mixed", log |-> <<>>]

InitWith(a, fs, t, p) ==
  /\ args = a
  /\ reader = TtyPlayInit(OpenFile(Recording(fs) \o CutFrame(t)))
  /\ writer = TtyRecWriterInit(OpenFile(<<>>))
  /\ frames = 0
  /\ pc = p
  /\ exc = "none"
  /\ input = [frames |-> fs, tail |-> CutFrame(t)]
  /\ calls = 0
  /\ last = [op |-> "none", loop |-> FALSE, pre |-> reader, post |-> reader,
             ret |-> "none", delays |-> <<>>, reads |-> 0]
  /\ hist = [mode |-> "fresh", log |-> <<>>]

(***************************************************************************)
(* __main__: the transcoding pass.                                         *)
(***************************************************************************)
Init ==
  \E a \in EncPairs, fs \in FrameSeqs(FrameChoices), t \in TailLens : InitWith(a, fs, t, "while")

\* line 230: while reader.read_frame()
MainReadFrame ==
  /\ pc = "while"
  /\ \E r \in {ReadFrame(reader, FALSE)} :
         /\ reader' = r.self
         /\ pc' = IF r.ret = "True" THEN "body"
                  ELSE IF r.ret = "False" THEN "close_reader" ELSE "raised"
         /\ exc' = IF r.ret \in {"True", "False"} THEN exc ELSE r.ret
         /\ calls' = calls + 1
         /\ last' = [op |-> "read_frame", loop |-> FALSE, pre |-> reader,
                     post |-> r.self, ret |-> r.ret, delays |-> <<>>, reads |-> 1]
         /\ hist' = HistRead(hist, FALSE, r)
  /\ UNCHANGED <<args, writer, frames, input>>

\* a loop body that drops a frame it cannot transcode and goes on
MainTranscodeSkipsFrame ==
  /\ pc = "body"
  /\ \E t \in {Transcode(args, reader.frame)} :
         /\ writer' = IF t.raised # "none" THEN writer
                      ELSE WriteFrame(writer, reader.seconds, reader.useconds, t.payload)
         /\ frames' = IF t.raised # "none" THEN frames ELSE frames + 1
         /\ pc' = "while"
  /\ UNCHANGED <<args, reader, exc, input, calls, last, hist>>

\* lines 231-236: transcode the payload, write the frame, count it
MainTranscode ==
  /\ pc = "body"
  /\ \E t \in {Transcode(args, reader.frame)} :
         IF t.raised # "none"
           THEN /\ pc' = "raised"
                /\ exc' = t.raised
                /\ UNCHANGED <<writer, frames>>
         ELSE /\ \E w \in {WrittenFrame(reader, t.payload)} :
                   writer' = WriteFrame(writer, w.seconds, w.useconds, w.payload)
              /\ frames' = frames + 1
              /\ pc' = "while"
              /\ UNCHANGED exc
  /\ UNCHANGED <<args, reader, input, calls, last, hist>>

\* lines 237-238: report the count, reader.close()
MainCloseReader ==
  /\ pc = "close_reader"
  /\ reader' = TtyPlayClose(reader)
  /\ pc' = "close_writer"
  /\ UNCHANGED <<args, writer, frames, exc, input, calls, last, hist>>

\* line 239: writer.close()
MainCloseWriter ==
  /\ pc = "close_writer"
  /\ writer' = TtyRecWriterClose(writer)
  /\ pc' = "exit"
  /\ UNCHANGED <<args, reader, frames, exc, input, calls, last, hist>>

Next == MainReadFrame \/ MainTranscode \/ MainCloseReader \/ MainCloseWriter

Spec == Init /\ [][Next]_vars

(***************************************************************************)
(* A client of one TtyPlay object that calls read_frame (with either loop  *)
(* flag) and compute_framedelays in any order, going on after a ValueError.*)
(***************************************************************************)
InitPlay ==
  \E fs \in FrameSeqs(PlayFrames), t \in TailLens :
    InitWith([source_encoding |-> "utf-8", target_encoding |-> "utf-8"], fs, t, "play")

PlayReadFrame ==
  /\ pc = "play"
  /\ calls < MaxCalls
  /\ \E loop \in BOOLEAN :
       \E r \in {ReadFrame(reader, loop)} :
           /\ reader' = r.self
           /\ calls' = calls + 1
           /\ last' = [op |-> "read_frame", loop |-> loop, pre |-> reader,
                       post |-> r.self, ret |-> r.ret, delays |-> <<>>, reads |-> 1]
           /\ hist' = HistRead(hist, loop, r)
  /\ UNCHANGED <<args, writer, frames, pc, exc, input>>

PlayComputeFramedelays ==
  /\ pc = "play"
  /\ calls < MaxCalls
  /\ \E r \in {ComputeFramedelays(reader)} :
         /\ reader' = r.self
         /\ calls' = calls + 1
         /\ last' = [op |-> "compute_framedelays", loop |-> TRUE, pre |-> reader,
                     post |-> r.self, ret |-> r.ret, delays |-> r.delays,
                     reads |-> r.reads]
         /\ hist' = HistCompute(r)
  /\ UNCHANGED <<args, writer, frames, pc, exc, input>>

NextPlay == PlayReadFrame \/ PlayComputeFramedelays

SpecPlay == InitPlay /\ [][NextPlay]_vars

(***************************************************************************)
(* Definitions the properties use.                                         *)
(***************************************************************************)
NFrames == Len(input.frames)

\* the bytes left to read in r's file
Remaining(r) == Len(r.file.data) - r.file.pos

\* the length field of the header at r's position (12 bytes or more remain)
DeclaredLength(r) == FromLE(SubSeq(r.file.data, r.file.pos + 9, r.file.pos + 12))

\* the timestamp of the header at r's position
HeaderStamp(r) ==
  [seconds  |-> FromLE(SubSeq(r.file.data, r.file.pos + 1, r.file.pos + 4)),
   useconds |-> FromLE(SubSeq(r.file.data, r.file.pos + 5, r.file.pos + 8))]

\* a timestamp in microseconds
TimeUs(sec, usec) == sec * Million + usec

NonDecreasing(fs) ==
  \A i \in 1..(Len(fs) - 1) :
    TimeUs(fs[i].seconds, fs[i].useconds) <= TimeUs(fs[i + 1].seconds, fs[i + 1].useconds)

\* the frames of a byte stream, parsed from offset i; a frame of length -1 stands
\* where the stream is cut off
RECURSIVE ParseFrom(_, _)
ParseFrom(b, i) ==
  IF i > Len(b) THEN <<>>
  ELSE IF i + 11 > Len(b) \/ i + 11 + FromLE(SubSeq(b, i + 8, i + 11)) > Len(b)
    THEN <<[seconds |-> 0, useconds |-> 0, length |-> -1, payload |-> <<>>]>>
  ELSE <<[seconds  |-> FromLE(SubSeq(b, i, i + 3)),
          useconds |-> FromLE(SubSeq(b, i + 4, i + 7)),
          length   |-> FromLE(SubSeq(b, i + 8, i + 11)),
          payload  |-> SubSeq(b, i + 12, i + 11 + FromLE(SubSeq(b, i + 8, i + 11)))]>>
       \o ParseFrom(b, i + 12 + FromLE(SubSeq(b, i + 8, i + 11)))

\* what the read_frame() calls of one pass of a reader show, up to the first
\* call that does not return True
RECURSIVE PassFrom(_)
PassFrom(self) ==
  CHOOSE p \in { IF r.ret = "True" THEN <<Shown(r)>> \o PassFrom(r.self)
                 ELSE <<Shown(r)>> : r \in {ReadFrame(self, FALSE)} } : TRUE

\* the pass of a new reader over the input file
FreshPass == PassFrom(TtyPlayInit(OpenFile(reader.file.data)))

\* float(n) / float(d) for an integer n
FDivInt(n, d) == IF n < 0 THEN FNeg(FDivNat(0 - n, d)) ELSE FDivNat(n, d)

(***************************************************************************)
(* The properties.                                                         *)
(***************************************************************************)

\* C1: a read_frame call on an open file raises ShortRead when 1 to 11 bytes
\* remain, and when 12 or more remain but fewer follow the header than its
\* length field declares; it returns False (EOF) only when no byte remains.
C1_ShortReadNotEof ==
  (last.op = "read_frame" /\ ~FileClosed(last.pre.file)) =>
    /\ (Remaining(last.pre) \in 1..(HeaderLen - 1) => last.ret = "ShortRead")
    /\ ((Remaining(last.pre) >= HeaderLen
           /\ Remaining(last.pre) - HeaderLen < DeclaredLength(last.pre))
          => last.ret = "ShortRead")
    /\ (last.ret = "False" => Remaining(last.pre) = 0)

\* a read_frame call, after at least one frame was read, that met a payload cut
\* off after one of its two bytes
C1_Witness ==
  /\ last.op = "read_frame"
  /\ last.pre.frameno >= 1
  /\ Remaining(last.pre) = HeaderLen + 1
  /\ DeclaredLength(last.pre) = 2
  /\ last.ret = "ShortRead"

\* C2: on a recording of exactly K frames and no trailing bytes, the first K
\* read_frame() calls of a new reader return True and the next returns False.
C2_CleanEof ==
  (hist.mode = "fresh" /\ input.tail = <<>>) =>
    \A k \in 1..Len(hist.log) :
      /\ (k <= NFrames => hist.log[k].ret = "True")
      /\ (k = NFrames + 1 => hist.log[k].ret = "False")

\* C3: the transcoding pass never ends with the NegativeDelay error.
C3_PassNeverNegativeDelay == pc = "raised" => exc # "NegativeDelay"

\* C4: for a frame read whole by read_frame: the first frame of a pass gets no
\* delay; any other gets the delay (sec - prev_sec) + (usec - prev_usec)/1000000,
\* and the call raises NegativeDelay exactly when its timestamp is smaller than
\* the previous one; a negative delay is never stored.
C4_DelayAndNegativeDelay ==
  (last.op = "read_frame" /\ last.ret \in {"True", "NegativeDelay"}) =>
    LET prev == last.pre
        cur  == HeaderStamp(last.pre)
    IN  /\ ~FNegative(last.post.duration)
        /\ (prev.frameno = 0 =>
              last.ret = "True" /\ last.post.duration = prev.duration)
        /\ (prev.frameno >= 1 =>
              /\ (last.ret = "NegativeDelay") <=>
                   (TimeUs(cur.seconds, cur.useconds) < TimeUs(prev.seconds, prev.useconds))
              /\ (last.ret = "True" =>
                    last.post.duration =
                      FAdd(FInt(cur.seconds - prev.seconds),
                           FDivInt(cur.useconds - prev.useconds, Million)))
              /\ (last.ret = "NegativeDelay" => last.post.duration = prev.duration))

\* C5: compute_framedelays on a new reader of a recording of N >= 1 frames
\* returns N-1 delays, none negative, the i-th that of frames i and i+1, when
\* the timestamps never decrease, and raises NegativeDelay when one does.
C5_DelaysOfRecording ==
  (last.op = "compute_framedelays" /\ calls = 1 /\ input.tail = <<>> /\ NFrames >= 1) =>
    IF NonDecreasing(input.frames)
      THEN /\ last.ret = "Return"
           /\ Len(last.delays) = NFrames - 1
           /\ \A i \in 1..Len(last.delays) :
                /\ ~FNegative(last.delays[i])
                /\ last.delays[i] =
                     ComputeFramelen(input.frames[i], input.frames[i + 1].seconds,
                                     input.frames[i + 1].useconds).duration
    ELSE last.ret = "NegativeDelay"

\* C6: reading back what write_frame wrote: the k-th read_frame() call of a new
\* reader returns True and shows the seconds, microseconds and payload of the
\* k-th frame written, whatever the timestamps, and the call after the last
\* frame returns False.
C6_RoundTrip ==
  (hist.mode = "fresh" /\ input.tail = <<>>) =>
    \A k \in 1..Len(hist.log) :
      /\ (k <= NFrames =>
            /\ hist.log[k].ret = "True"
            /\ hist.log[k].seconds = input.frames[k].seconds
            /\ hist.log[k].useconds = input.frames[k].useconds
            /\ hist.log[k].frame = input.frames[k].payload)
      /\ (k = NFrames + 1 => hist.log[k].ret = "False")

\* C7: when the read loop of the transcoding pass has ended at EOF, the output
\* holds as many whole frames as the input, the i-th with the seconds and
\* microseconds of the i-th input frame, with the re-encoded payload and its
\* byte count as length, and the frame count is that number.
C7_TimingPreserved ==
  pc \in {"close_reader", "close_writer", "exit"} =>
    \E out \in {ParseFrom(writer.file.data, 1)} :
      /\ input.tail = <<>>
      /\ frames = NFrames
      /\ Len(out) = NFrames
      /\ \A i \in 1..Len(out) :
           /\ out[i].seconds = input.frames[i].seconds
           /\ out[i].useconds = input.frames[i].useconds
           /\ out[i].payload = Transcode(args, input.frames[i].payload).payload
           /\ out[i].length = Len(Transcode(args, input.frames[i].payload).payload)

\* a completed pass over three frames, one of them with a payload whose
\* length changed
C7_Witness ==
  /\ pc = "exit"
  /\ frames = 3
  /\ \E i \in 1..NFrames :
       /\ input.frames[i].useconds # input.frames[i].seconds
       /\ Len(Transcode(args, input.frames[i].payload).payload)
            # Len(input.frames[i].payload)

\* C8: no undecodable byte and no unrepresentable character ends the
\* transcoding pass with an error.
C8_LossyDropNeverFatal ==
  pc = "raised" => exc \notin {"UnicodeDecodeError", "UnicodeEncodeError"}

\* C9: once compute_framedelays has returned, the reader is at offset 0 with
\* frame index 0 and its file open, and the read_frame() calls that follow show
\* the results, timestamps, payloads and delays that a new reader of the same
\* file shows.
C9_PassAfterDelays ==
  hist.mode = "rewound" =>
    /\ (hist.log = <<>> =>
          /\ reader.file.pos = 0
          /\ reader.frameno = 0
          /\ ~FileClosed(reader.file))
    /\ \E fresh \in {FreshPass} :
         \A k \in 1..Len(hist.log) : k <= Len(fresh) => hist.log[k] = fresh[k]

\* compute_framedelays, then a whole pass of two frames and the EOF
C9_Witness ==
  /\ hist.mode = "rewound"
  /\ Len(hist.log) = 3
  /\ hist.log[2].ret = "True"
  /\ hist.log[2].delay # <<>>
  /\ hist.log[3].ret = "False"

\* C10: when the program has ended, by reaching its end or by an exception,
\* close() was called exactly once on the input file and once on the output.
C10_ClosedExactlyOnce ==
  pc \in {"exit", "raised"} => reader.file.closes = 1 /\ writer.file.closes = 1

C12_LastSeenUpdated ==
  (last.op = "read_frame" /\ last.ret \in {"True", "NegativeDelay"}) =>
    /\ last.post.seconds = HeaderStamp(last.pre).seconds
    /\ last.post.useconds = HeaderStamp(last.pre).useconds

\* the number of whole frames of the byte stream b, parsed from offset i, that
\* end at or before the file position pos
RECURSIVE FramesUpTo(_, _, _)
FramesUpTo(b, i, pos) ==
  IF i + 11 > Len(b) \/ i + 11 + FromLE(SubSeq(b, i + 8, i + 11)) > Min(pos, Len(b))
    THEN 0
  ELSE 1 + FramesUpTo(b, i + 12 + FromLE(SubSeq(b, i + 8, i + 11)), pos)

\* the frames that lie between the start of r's file and its position
FramesBefore(r) == FramesUpTo(r.file.data, 1, r.file.pos)

\* C13: a read_frame(loop=True) call that finds no byte left rewinds the file
\* to offset 0, sets the frame index to 0, leaves the file open and the
\* timestamps, length, payload and delay as they were; a read_frame call made at
\* offset 0 with frame index 0 on a stream that starts with a whole frame
\* returns True with frame index 1 and computes no delay; a read_frame() call
\* that finds no byte left closes the file and leaves the frame index; and in
\* every state the frame index is the number of frames between the start of
\* the stream and the reader's position.
C13_LoopEofAndFrameIndex ==
  /\ (last.op = "read_frame" /\ last.ret = "False" /\ last.loop) =>
       /\ last.post.file.pos = 0
       /\ last.post.frameno = 0
       /\ ~FileClosed(last.post.file)
       /\ last.post = [last.pre EXCEPT !.file = last.post.file, !.frameno = 0]
  /\ (last.op = "read_frame" /\ last.ret = "False" /\ ~last.loop) =>
       /\ FileClosed(last.post.file)
       /\ last.post.frameno = last.pre.frameno
  /\ (last.op = "read_frame" /\ ~FileClosed(last.pre.file)
        /\ last.pre.file.pos = 0 /\ last.pre.frameno = 0 /\ NFrames >= 1) =>
       /\ last.ret = "True"
       /\ last.post.frameno = 1
       /\ last.post.duration = last.pre.duration
       /\ last.post.frame = input.frames[1].payload
  /\ reader.frameno = FramesBefore(reader)

\* C14: compute_framedelays on a new reader ends: on a recording of N whole
\* frames with timestamps that never decrease it returns after N read_frame
\* calls that returned True and one that met EOF; on a stream that is cut off
\* or whose timestamps decrease it raises ShortRead or NegativeDelay.
C14_DelayPassTerminates ==
  (last.op = "compute_framedelays" /\ calls = 1) =>
    IF input.tail = <<>> /\ NonDecreasing(input.frames)
      THEN /\ last.ret = "Return"
           /\ last.reads = NFrames + 1
           /\ Len(last.delays) = IF NFrames = 0 THEN 0 ELSE NFrames - 1
    ELSE last.ret \in {"ShortRead", "NegativeDelay"}

\* C15: compute_framedelays called on an open reader that has read k >= 1
\* frames with read_frame(), and not met EOF, of a recording of N frames with
\* timestamps that never decrease, returns the N-1 delays that it returns on a
\* new reader of the same file.
C15_DelaysIndependentOfState ==
  (last.op = "compute_framedelays" /\ calls >= 2
     /\ ~FileClosed(last.pre.file) /\ last.pre.frameno = calls - 1
     /\ last.pre.frameno = FramesBefore(last.pre)
     /\ last.pre.seconds = input.frames[last.pre.frameno].seconds
     /\ last.pre.useconds = input.frames[last.pre.frameno].useconds
     /\ input.tail = <<>> /\ NonDecreasing(input.frames)) =>
    \E fresh \in {ComputeFramedelays(TtyPlayInit(OpenFile(reader.file.data)))} :
      /\ last.ret = fresh.ret
      /\ last.delays = fresh.delays
      /\ (last.ret = "Return" => Len(last.delays) = NFrames - 1)

\* the read_frame calls of the transcoding pass that returned True
ReadCount == Cardinality({k \in 1..Len(hist.log) : hist.log[k].ret = "True"})

\* C16 in one state: the output holds only whole frames, as many as were
\* counted; that number is the number of frames read or one less; every
\* read_frame call before the last returned True; and once an error was raised
\* the failed frame was not written.
WriteFollowsRead ==
  \E out \in {ParseFrom(writer.file.data, 1)} :
    /\ \A i \in 1..Len(out) : out[i].length # -1
    /\ Len(out) = frames
    /\ frames \in {ReadCount - 1, ReadCount}
    /\ (pc = "while" => frames = ReadCount)
    /\ (pc = "body" => frames = ReadCount - 1)
    /\ Len(hist.log) = calls
    /\ \A k \in 1..(Len(hist.log) - 1) : hist.log[k].ret = "True"
    /\ (pc = "raised" /\ exc \in {"ShortRead", "NegativeDelay"} =>
          /\ hist.log[Len(hist.log)].ret = exc
          /\ frames = ReadCount)
    /\ (pc = "raised" /\ exc \in {"UnicodeDecodeError", "UnicodeEncodeError"} =>
          /\ hist.log[Len(hist.log)].ret = "True"
          /\ frames = ReadCount - 1)

\* C16: the transcoding pass takes no step once an error was raised (no further
\* read_frame, no write_frame), and every step leaves the frames written equal
\* to or one less than the frames read, the output made of whole frames only.
C16_FatalErrorAborts == [][pc # "raised" /\ WriteFollowsRead']_vars

\* the pass ended by an error on its third frame, after two frames were read
\* and written
C16_Witness ==
  /\ pc = "raised"
  /\ frames = 2
  /\ Len(writer.file.data) > 2 * HeaderLen
  /\ calls = 3

\* C17: a read_frame call that raises ShortRead or NegativeDelay leaves the
\* frame index, seconds, useconds, length, payload and delay of the reader as
\* they were; and after every read_frame call the payload has as many bytes as
\* the length field says.
C17_FailedReadKeepsState ==
  /\ (last.op = "read_frame" /\ last.ret \in {"ShortRead", "NegativeDelay"}) =>
       /\ last.post.frameno = last.pre.frameno
       /\ last.post.seconds = last.pre.seconds
       /\ last.post.useconds = last.pre.useconds
       /\ last.post.length = last.pre.length
       /\ last.post.frame = last.pre.frame
       /\ last.post.duration = last.pre.duration
  /\ (last.op = "read_frame" => Len(last.post.frame) = last.post.length)
====
